---- MODULE Spec2Model ----
(***************************************************************************)
(* USB Inspector v1.0 (usb_inspector.py): the --serial menu loop of main,  *)
(* the stream session of read_serial_data with its three exception         *)
(* handlers and its cleanup, and the USB listing path of main (scan,       *)
(* filter, render) with USBDevice.__init__, to_dict and matches_filter.    *)
(*                                                                         *)
(* Python text is a sequence of one-character strings; an exception is a   *)
(* record [type, msg]; None is the string "None" where a value may be      *)
(* absent.                                                                 *)
(***************************************************************************)
EXTENDS Integers, Sequences, FiniteSets, TLC

VARIABLES
    pc,          \* position of main: see MainPCs
    args,        \* the parsed command line (argparse namespace)
    ports,       \* main's local `ports`, the last result of list_serial_ports
    selected,    \* main's local `selected`
    menuOut,     \* the last message the serial menu printed
    rs,          \* position inside read_serial_data
    serBound,    \* whether read_serial_data's local `ser` is bound
    handle,      \* state of the port handle of the current/last session
    yielded,     \* raw lines readline() has returned in this session
    trace,       \* what this session printed, in order
    exc,         \* the exception in flight in read_serial_data, or NoExc
    closeCalls,  \* invocations of ser.close() in this session
    closeErr,    \* the error that ser.close() raised in this session, or NoExc
    escaped,     \* the exception that left read_serial_data, or NoExc
    fromStream,  \* TRUE from the return of read_serial_data to the next step of main
    devices,     \* main's local `devices`: the USBDevice objects
    output       \* main's local `output`, what the listing rendered

vars ==
    <<pc, args, ports, selected, menuOut, rs, serBound, handle, yielded, trace,
      exc, closeCalls, closeErr, escaped, fromStream, devices, output>>

(***************************************************************************)
(* Bounds                                                                  *)
(***************************************************************************)
\* most lines a transport yields before it fails
MaxLines == 2
\* most USB devices a scan finds
MaxDevices == 1

(***************************************************************************)
(* Text of a serial line: bytes, decode(errors='ignore'), strip()          *)
(***************************************************************************)
\* "xFF" stands for a byte that is no valid UTF-8
Bytes == {"b", " ", "\n", "xFF"}

Whitespace == {" ", "\n"}

RECURSIVE DecodeIgnore(_)
\* bytes.decode(errors='ignore'): undecodable bytes are dropped
DecodeIgnore(bs) ==
    IF bs = <<>> THEN <<>>
    ELSE IF Head(bs) = "xFF" THEN DecodeIgnore(Tail(bs))
         ELSE <<Head(bs)>> \o DecodeIgnore(Tail(bs))

RECURSIVE LStrip(_)
LStrip(s) ==
    IF s # <<>> /\ Head(s) \in Whitespace THEN LStrip(Tail(s)) ELSE s

RECURSIVE RStrip(_)
RStrip(s) ==
    IF s # <<>> /\ s[Len(s)] \in Whitespace THEN RStrip(SubSeq(s, 1, Len(s) - 1)) ELSE s

\* str.strip(): whitespace is removed at both ends
Strip(s) == RStrip(LStrip(s))

\* a mutant of PrintedLine: a line that is empty after strip() is not printed
PrintedLineSkipEmpty(raw) ==
    IF Strip(DecodeIgnore(raw)) = <<>> THEN <<>>
    ELSE << [kind |-> "line", text |-> Strip(DecodeIgnore(raw))] >>

\* what one pass of the loop body prints for the raw line it read
PrintedLine(raw) == << [kind |-> "line", text |-> Strip(DecodeIgnore(raw))] >>

\* what readline() may return: a plain line, one with a byte that does not
\* decode, a blank line, and a line cut by the read timeout
RawLines ==
    { <<"b", "\n">>, <<"xFF", "b", "\n">>, <<"\n">>, <<" ", "b">> }

(***************************************************************************)
(* Exceptions and the handlers of read_serial_data                         *)
(***************************************************************************)
NoExc == [type |-> "none", msg |-> "none"]

Msgs == {"e1", "e2"}

\* what can end a stream: Ctrl+C, the serial layer, anything else
Causes ==
    {[type |-> "KeyboardInterrupt", msg |-> "none"]}
    \cup {[type |-> t, msg |-> m] : t \in {"SerialException", "Exception"}, m \in Msgs}

\* raised by ser.close() when `ser` was never bound
UnboundLocal == [type |-> "UnboundLocalError", msg |-> "ser"]

\* the class hierarchy: SerialException, UnboundLocalError derive from Exception
IsInstance(e, cls) ==
    \/ e.type = cls
    \/ cls = "Exception" /\ e.type \in {"SerialException", "UnboundLocalError", "OSError"}
    \/ cls = "BaseException" /\ e.type # "none"

\* a mutant of HandlerOf: the generic clause is tried before the serial one
HandlerOfGenericFirst(e) ==
    IF IsInstance(e, "KeyboardInterrupt") THEN "user"
    ELSE IF IsInstance(e, "Exception") THEN "unexpected"
    ELSE IF IsInstance(e, "SerialException") THEN "serial"
    ELSE "none"

\* a mutant of HandlerOf: there is no generic clause
HandlerOfNoGeneric(e) ==
    IF IsInstance(e, "KeyboardInterrupt") THEN "user"
    ELSE IF IsInstance(e, "SerialException") THEN "serial"
    ELSE "none"

\* the except clauses, tried in the order written
HandlerOf(e) ==
    IF IsInstance(e, "KeyboardInterrupt") THEN "user"
    ELSE IF IsInstance(e, "SerialException") THEN "serial"
    ELSE IF IsInstance(e, "Exception") THEN "unexpected"
    ELSE "none"

\* what a handler prints
Report(h, e) ==
    CASE h = "user"       -> << [kind |-> "stopped", text |-> "none"] >>
      [] h = "serial"     -> << [kind |-> "serial_error", text |-> e.msg] >>
      [] h = "unexpected" -> << [kind |-> "unexpected_error", text |-> e.msg] >>
      [] OTHER            -> <<>>

\* a mutant of CleanupSwallows: the inner clause catches nothing
CleanupSwallowsNothing(e) == FALSE

\* the bare `except: pass` around ser.close()
CleanupSwallows(e) == IsInstance(e, "BaseException")

\* a mutant of CleanupCloses: the finally block does not close
CleanupClosesNever(bound) == FALSE

\* finally: ser.close() reaches the handle's close when `ser` is bound
CleanupCloses(bound) == bound

(***************************************************************************)
(* Python text: str.lower(), hex(), str(), `in`                            *)
(***************************************************************************)
UpperCase ==
    <<"A", "B", "C", "D", "E", "F", "G", "H", "I", "J", "K", "L", "M",
      "N", "O", "P", "Q", "R", "S", "T", "U", "V", "W", "X", "Y", "Z">>

LowerCase ==
    <<"a", "b", "c", "d", "e", "f", "g", "h", "i", "j", "k", "l", "m",
      "n", "o", "p", "q", "r", "s", "t", "u", "v", "w", "x", "y", "z">>

\* "eszett" is the one character U+00DF, a lower-case letter with no
\* one-character upper case: 'ß'.upper() == 'SS', 'ß'.lower() == 'ß'
LowerChar(c) ==
    IF \E i \in 1..26 : UpperCase[i] = c
    THEN LowerCase[CHOOSE i \in 1..26 : UpperCase[i] = c]
    ELSE c

\* str.lower()
Lower(s) == [i \in 1..Len(s) |-> LowerChar(s[i])]

\* `k in s` for str
Contains(s, k) ==
    \E i \in 0..(Len(s) - Len(k)) : SubSeq(s, i + 1, i + Len(k)) = k

HexDigits ==
    <<"0", "1", "2", "3", "4", "5", "6", "7", "8", "9", "a", "b", "c", "d", "e", "f">>

RECURSIVE Digits(_, _, _)
\* the digits of n >= 0 in a base, no leading zeros
Digits(n, base, glyphs) ==
    IF n < base THEN << glyphs[n + 1] >>
    ELSE Digits(n \div base, base, glyphs) \o << glyphs[(n % base) + 1] >>

\* hex(n) for n >= 0: '0x' and lower-case digits
Hex(n) == <<"0", "x">> \o Digits(n, 16, HexDigits)

\* a value that is a str or None
None == [none |-> TRUE, text |-> <<>>]

Text(s) == [none |-> FALSE, text |-> s]

\* str(value)
PyStr(v) == IF v.none THEN <<"N", "o", "n", "e">> ELSE v.text

Unknown == Text(<<"U", "n", "k", "n", "o", "w", "n">>)

(***************************************************************************)
(* USB devices                                                             *)
(***************************************************************************)
\* 0x11 and 0xb: the decimal text of the second is in the hex text of the first
VendorIds == {17}

ProductIds == {11}

PlatformStrings == { <<"M", "a", "eszett">> }

\* usb.util.get_string(): the string, None for a descriptor index of 0, or an error
Lookups ==
    {[kind |-> "str", val |-> Text(t)] : t \in PlatformStrings}
    \cup {[kind |-> "none", val |-> None], [kind |-> "raise", val |-> None]}

\* what usb.core.find(find_all=True) yields
RawDevices ==
    [idVendor : VendorIds, idProduct : ProductIds,
     manufacturer : Lookups, product : Lookups, serial : Lookups]

\* USBDevice.__init__, one try/except: the looked-up value, "Unknown" on an error
StringField(lookup) == IF lookup.kind = "raise" THEN Unknown ELSE lookup.val

\* USBDevice.__init__
USBDeviceInit(dev) ==
    [vendor_id    |-> dev.idVendor,
     product_id   |-> dev.idProduct,
     manufacturer |-> StringField(dev.manufacturer),
     product      |-> StringField(dev.product),
     serial       |-> StringField(dev.serial)]

\* USBDevice.to_dict(): key/value pairs in the order written
ToDict(d) ==
    << <<"VID", Text(Hex(d.vendor_id))>>,
       <<"PID", Text(Hex(d.product_id))>>,
       <<"Manufacturer", d.manufacturer>>,
       <<"Product", d.product>>,
       <<"Serial", d.serial>> >>

Keys(dict) == [i \in 1..Len(dict) |-> dict[i][1]]

Values(dict) == [i \in 1..Len(dict) |-> dict[i][2]]

\* USBDevice.matches_filter()
MatchesFilter(d, keyword) ==
    \E i \in 1..Len(ToDict(d)) :
        Contains(Lower(PyStr(ToDict(d)[i][2])), Lower(keyword))

\* scan_usb_devices()
ScanUsbDevices(found) == [i \in 1..Len(found) |-> USBDeviceInit(found[i])]

\* values of --filter: absent, or a text ('' is falsy and filters nothing)
Keywords ==
    { <<>>, <<"1", "1">>, <<"B">>, <<"eszett">>, <<"m", "A">> }

FilterArgs == {None} \cup {Text(k) : k \in Keywords}

\* `if args.filter:`
Truthy(v) == ~v.none /\ v.text # <<>>

\* main, lines 216-217
Filtered(devs, f) ==
    IF Truthy(f) THEN SelectSeq(devs, LAMBDA d : MatchesFilter(d, f.text)) ELSE devs

\* tabulate(table, headers="keys") on a list of dicts: the keys are the headers,
\* the values the rows; no rows, no headers
TabulateKeys(table) ==
    [headers |-> IF table = <<>> THEN <<>> ELSE Keys(table[1]),
     rows    |-> [i \in 1..Len(table) |-> Values(table[i])]]

\* json.dumps of a list of dicts: every object carries its keys and values
JsonDumps(table) ==
    [headers |-> IF table = <<>> THEN <<>> ELSE Keys(table[1]),
     rows    |-> [i \in 1..Len(table) |-> Values(table[i])]]

\* a mutant of AllinfoTable: the rows of the short listing
AllinfoTableShort(devs) ==
    [i \in 1..Len(devs) |->
        << <<"VID", Text(Hex(devs[i].vendor_id))>>,
           <<"PID", Text(Hex(devs[i].product_id))>>,
           <<"Product", devs[i].product>> >>]

\* main, line 226
AllinfoTable(devs) == [i \in 1..Len(devs) |-> ToDict(devs[i])]

\* main, lines 223-230
Render(devs, a) ==
    IF a.json
    THEN [mode |-> "json"] @@ JsonDumps([i \in 1..Len(devs) |-> ToDict(devs[i])])
    ELSE IF a.allinfo
    THEN [mode |-> "table"] @@ TabulateKeys(AllinfoTable(devs))
    ELSE [mode    |-> "table",
          headers |-> <<"VID", "PID", "Product">>,
          rows    |-> [i \in 1..Len(devs) |->
                         << Text(Hex(devs[i].vendor_id)),
                            Text(Hex(devs[i].product_id)),
                            devs[i].product >>]]

NoOutput == [mode |-> "none", headers |-> <<>>, rows |-> <<>>]

SeqsUpTo(S, n) == UNION {[1..k -> S] : k \in 0..n}

(***************************************************************************)
(* The host: serial ports attached, what the user types                    *)
(***************************************************************************)
\* results of list_ports.comports(): device paths, in the host's order
Enumerations == {<<>>, <<"COM1">>, <<"COM1", "COM2">>}

\* answers to "Choose a port", after strip()
PortInputs == {"q", "Q", "1", "2", "3", "COM1", "COM2", "COM9"}

\* answers to "Read data from this port?", after strip()
ReadInputs == {"y", "Y", "n"}

\* str.lower() on the answers above
LowerAnswer(s) ==
    CASE s = "Q"    -> "q"
      [] s = "Y"    -> "y"
      [] s = "COM1" -> "com1"
      [] s = "COM2" -> "com2"
      [] s = "COM9" -> "com9"
      [] OTHER      -> s

\* str.isdigit() on the answers above
IsDigit(s) == s \in {"1", "2", "3"}

\* int() on the answers that are digits
IntOf(s) == CASE s = "1" -> 1 [] s = "2" -> 2 [] s = "3" -> 3 [] OTHER -> 0

\* a mutant of ListSerialPorts: the empty case is not told apart
ListSerialPortsNoEmptyCase(enum) == [out |-> "ports_available", ret |-> enum]

\* list_serial_ports(): what it prints and what it returns
ListSerialPorts(enum) ==
    IF enum = <<>> THEN [out |-> "no_serial_devices", ret |-> <<>>]
    ELSE [out |-> "ports_available", ret |-> enum]

\* main, `if not ports: return`
AfterEmptyList == "done"

\* main, `if user_input.lower() == 'q': break`: control goes on after the loop
AfterQuit == "usb"

\* main, choice of `selected` from the answer
SelectedOf(inp, ps) ==
    IF IsDigit(inp) /\ 1 <= IntOf(inp) /\ IntOf(inp) <= Len(ps) THEN ps[IntOf(inp)]
    ELSE inp

\* get_serial_port_info(): the port whose device is port_name, or None
GetSerialPortInfo(name, enum) ==
    IF \E i \in 1..Len(enum) : enum[i] = name
    THEN [out |-> "device_information", ret |-> name]
    ELSE [out |-> "not_found", ret |-> "None"]

\* every flag combination of the command line
ArgSets ==
    [serial : BOOLEAN, json : BOOLEAN, allinfo : BOOLEAN, inspect : BOOLEAN,
     filter : FilterArgs]

\* len(sys.argv) == 1
NoArguments(a) == ~a.serial /\ ~a.json /\ ~a.allinfo /\ ~a.inspect /\ a.filter.none

SessionReset ==
    /\ serBound' = FALSE
    /\ handle' = "none"
    /\ yielded' = <<>>
    /\ trace' = <<>>
    /\ exc' = NoExc
    /\ closeCalls' = 0
    /\ closeErr' = NoExc
    /\ escaped' = NoExc

SessionVars ==
    <<serBound, handle, yielded, trace, exc, closeCalls, closeErr, escaped>>

Init ==
    /\ pc = "start"
    /\ args = [serial |-> FALSE, json |-> FALSE, allinfo |-> FALSE, inspect |-> FALSE,
               filter |-> None]
    /\ ports = <<>>
    /\ selected = "None"
    /\ menuOut = "none"
    /\ rs = "idle"
    /\ serBound = FALSE
    /\ handle = "none"
    /\ yielded = <<>>
    /\ trace = <<>>
    /\ exc = NoExc
    /\ closeCalls = 0
    /\ closeErr = NoExc
    /\ escaped = NoExc
    /\ fromStream = FALSE
    /\ devices = <<>>
    /\ output = NoOutput

\* main, lines 173-188: parse the command line, help on no arguments
Start ==
    /\ pc = "start"
    /\ \E a \in ArgSets :
        /\ args' = a
        /\ pc' = IF NoArguments(a) THEN "exited"
                 ELSE IF a.serial THEN "list" ELSE "usb"
    /\ UNCHANGED <<ports, selected, menuOut, rs, SessionVars, fromStream>>
    /\ UNCHANGED <<devices, output>>

\* main, lines 189-192: top of the menu loop
ListPorts ==
    /\ pc = "list"
    /\ \E enum \in Enumerations :
        /\ ports' = ListSerialPorts(enum).ret
        /\ menuOut' = ListSerialPorts(enum).out
        /\ pc' = IF ListSerialPorts(enum).ret = <<>> THEN AfterEmptyList ELSE "prompt"
    /\ fromStream' = FALSE
    /\ yielded' = <<>>
    /\ trace' = <<>>
    /\ exc' = NoExc
    /\ UNCHANGED <<args, selected, rs, serBound, handle, closeCalls, closeErr, escaped>>
    /\ UNCHANGED <<devices, output>>

\* main, lines 194-200: the port prompt. Nothing after the loop reads the loop's
\* locals, so they are dropped when 'q' leaves it.
Prompt ==
    /\ pc = "prompt"
    /\ \E inp \in PortInputs :
        IF LowerAnswer(inp) = "q"
        THEN /\ pc' = AfterQuit
             /\ ports' = <<>>
             /\ selected' = "None"
             /\ menuOut' = "none"
        ELSE /\ selected' = SelectedOf(inp, ports)
             /\ pc' = "info"
             /\ UNCHANGED <<ports, menuOut>>
    /\ UNCHANGED <<args, rs, SessionVars, fromStream>>
    /\ UNCHANGED <<devices, output>>

\* main, lines 202-204
Info ==
    /\ pc = "info"
    /\ \E enum \in Enumerations :
        /\ menuOut' = GetSerialPortInfo(selected, enum).out
        /\ pc' = IF GetSerialPortInfo(selected, enum).ret = "None" THEN "list" ELSE "askread"
    /\ UNCHANGED <<args, ports, selected, rs, SessionVars, fromStream>>
    /\ UNCHANGED <<devices, output>>

\* main, lines 206-208: the read prompt; 'y' calls read_serial_data
AskRead ==
    /\ pc = "askread"
    /\ \E ans \in ReadInputs :
        IF LowerAnswer(ans) = "y"
        THEN /\ pc' = "stream"
             /\ rs' = "open"
             /\ SessionReset
        ELSE /\ pc' = "list"
             /\ UNCHANGED <<rs, SessionVars>>
    /\ UNCHANGED <<args, ports, selected, menuOut, fromStream>>
    /\ UNCHANGED <<devices, output>>

\* read_serial_data, lines 123-125: serial.Serial(...) succeeds
RSOpen ==
    /\ rs = "open"
    /\ serBound' = TRUE
    /\ handle' = "open"
    /\ trace' = << [kind |-> "listening", text |-> selected] >>
    /\ rs' = "loop"
    /\ UNCHANGED <<pc, args, ports, selected, menuOut, yielded, exc, closeCalls,
                   closeErr, escaped, fromStream>>
    /\ UNCHANGED <<devices, output>>

\* read_serial_data, line 123: serial.Serial(...) raises, or Ctrl+C arrives in it
RSOpenFails ==
    /\ rs = "open"
    /\ \E c \in Causes : exc' = c
    /\ rs' = "except"
    /\ UNCHANGED <<pc, args, ports, selected, menuOut, serBound, handle,
                   yielded, trace, closeCalls, closeErr, escaped, fromStream>>
    /\ UNCHANGED <<devices, output>>

\* read_serial_data, lines 127-129: data is waiting, one line is read and printed.
\* A pass on which in_waiting is 0 changes nothing and is a stuttering step.
RSRead ==
    /\ rs = "loop"
    /\ Len(yielded) < MaxLines
    /\ \E raw \in RawLines :
        /\ yielded' = Append(yielded, raw)
        /\ trace' = trace \o PrintedLine(raw)
    /\ UNCHANGED <<pc, args, ports, selected, menuOut, rs, serBound, handle, exc,
                   closeCalls, closeErr, escaped, fromStream>>
    /\ UNCHANGED <<devices, output>>

\* read_serial_data, lines 126-129: in_waiting or readline raises, or Ctrl+C arrives
RSRaise ==
    /\ rs = "loop"
    /\ \E c \in Causes : exc' = c
    /\ rs' = "except"
    /\ UNCHANGED <<pc, args, ports, selected, menuOut, serBound, handle,
                   yielded, trace, closeCalls, closeErr, escaped, fromStream>>
    /\ UNCHANGED <<devices, output>>

\* read_serial_data, lines 130-135: the matching handler prints its report
RSExcept ==
    /\ rs = "except"
    /\ trace' = trace \o Report(HandlerOf(exc), exc)
    /\ rs' = "finally"
    /\ UNCHANGED <<pc, args, ports, selected, menuOut, serBound, handle,
                   yielded, exc, closeCalls, closeErr, escaped, fromStream>>
    /\ UNCHANGED <<devices, output>>

\* what leaves the function: an error of the cleanup replaces the one in flight
Leaves(cleanupErr) ==
    IF cleanupErr # NoExc /\ ~CleanupSwallows(cleanupErr) THEN cleanupErr
    ELSE IF HandlerOf(exc) = "none" THEN exc
    ELSE NoExc

\* read_serial_data, lines 136-140, and the return to main's loop (line 189).
\* close() either succeeds or raises; a close() that raised may have released
\* the handle or not.
RSFinally ==
    /\ rs = "finally"
    /\ \E err \in {NoExc, [type |-> "OSError", msg |-> "close"]},
          left \in {"open", "closed"} :
        /\ err = NoExc => left = "closed"
        /\ IF CleanupCloses(serBound)
           THEN /\ closeCalls' = closeCalls + 1
                /\ closeErr' = err
                /\ handle' = left
                /\ escaped' = Leaves(err)
           ELSE /\ err = NoExc
                /\ left = "closed"
                /\ UNCHANGED <<closeCalls, closeErr, handle>>
                /\ escaped' = Leaves(IF serBound THEN NoExc ELSE UnboundLocal)
    /\ rs' = "idle"
    /\ pc' = IF escaped' = NoExc THEN "list" ELSE "crashed"
    /\ fromStream' = TRUE
    /\ UNCHANGED <<args, ports, selected, menuOut, serBound, yielded, trace, exc>>
    /\ UNCHANGED <<devices, output>>

SerialVars ==
    <<ports, selected, menuOut, rs, SessionVars, fromStream>>

\* main, lines 210-215: the banner and the scan
Scan ==
    /\ pc = "usb"
    /\ \E found \in SeqsUpTo(RawDevices, MaxDevices) :
        devices' = ScanUsbDevices(found)
    /\ pc' = "filter"
    /\ UNCHANGED <<args, output, SerialVars>>

\* main, lines 216-221
Filter ==
    /\ pc = "filter"
    /\ devices' = Filtered(devices, args.filter)
    /\ pc' = IF args.inspect THEN "inspect" ELSE "render"
    /\ UNCHANGED <<args, output, SerialVars>>

\* interactive_inspect, lines 147-169: 'q' leaves; a valid number prints (and may
\* save) that device's dict; anything else asks again
Inspect ==
    /\ pc = "inspect"
    /\ \E choice \in {"q", "Q", "1", "2", "3", "COM9"} :
        IF LowerAnswer(choice) = "q"
        THEN /\ pc' = "done"
             /\ UNCHANGED output
        ELSE IF IsDigit(choice) /\ 1 <= IntOf(choice) /\ IntOf(choice) <= Len(devices)
        THEN /\ output' = [mode |-> "json"]
                            @@ JsonDumps(<< ToDict(devices[IntOf(choice)]) >>)
             /\ UNCHANGED pc
        ELSE UNCHANGED <<pc, output>>
    /\ UNCHANGED <<args, devices, SerialVars>>

\* main, lines 223-237: render, print, and save when --save names a file
RenderOutput ==
    /\ pc = "render"
    /\ output' = Render(devices, args)
    /\ pc' = "done"
    /\ UNCHANGED <<args, devices, SerialVars>>

Next ==
    \/ Scan
    \/ Filter
    \/ Inspect
    \/ RenderOutput
    \/ Start
    \/ ListPorts
    \/ Prompt
    \/ Info
    \/ AskRead
    \/ RSOpen
    \/ RSOpenFails
    \/ RSRead
    \/ RSRaise
    \/ RSExcept
    \/ RSFinally

Spec == Init /\ [][Next]_vars

(***************************************************************************)
(* Properties                                                              *)
(***************************************************************************)
ReportKinds == {"stopped", "serial_error", "unexpected_error"}

IsReport(e) == e.kind \in ReportKinds

IsLine(e) == e.kind = "line"

\* the report that belongs to a termination cause
ReportFor(e) ==
    CASE e.type = "KeyboardInterrupt" -> [kind |-> "stopped", text |-> "none"]
      [] e.type = "SerialException"   -> [kind |-> "serial_error", text |-> e.msg]
      [] e.type = "Exception"         -> [kind |-> "unexpected_error", text |-> e.msg]

\* read_serial_data has returned (or been left) and main has not moved yet
Returned == rs = "idle" /\ fromStream

\* a session of read_serial_data is over and its port had been opened
SessionOverOpened == rs = "idle" /\ handle # "none"

C2_CleanupRaisesNothing ==
    (Returned /\ (handle = "none" \/ closeErr # NoExc)) =>
        /\ escaped = NoExc
        /\ pc = "list"
        /\ SelectSeq(trace, IsReport) = << ReportFor(exc) >>

C2_Witness ==
    /\ Returned
    /\ handle = "none"
    /\ ~serBound
    /\ exc = [type |-> "SerialException", msg |-> "e2"]
    /\ escaped = NoExc

\* C3: each cause that ends the stream loop yields exactly one report, the one
\* of that cause (Ctrl+C: "Stopped by user" and no error message; a
\* SerialException: the serial error; any other exception: the unexpected
\* error); no report is printed before the cause, and once it is printed the
\* loop has stopped and the cleanup follows.
C3_OneReportPerCause ==
    /\ rs \in {"open", "loop", "except"} => SelectSeq(trace, IsReport) = <<>>
    /\ (rs = "finally" \/ Returned) => SelectSeq(trace, IsReport) = << ReportFor(exc) >>
    /\ rs = "loop" => exc = NoExc
    /\ rs \in {"except", "finally"} => exc \in Causes

C3_Witness ==
    /\ rs = "finally"
    /\ handle = "open"
    /\ exc = [type |-> "Exception", msg |-> "e1"]
    /\ trace[Len(trace)] = [kind |-> "unexpected_error", text |-> "e1"]

\* what the session prints for the lines the transport yielded
Emitted(raws) ==
    [i \in 1..Len(raws) |-> [kind |-> "line", text |-> Strip(DecodeIgnore(raws[i]))]]

\* C4: when the transport yields lines and then raises a transport error, the
\* output of the session is the banner, then every yielded line (decoded and
\* stripped) in the order yielded and once each, then the serial error report
\* and nothing after it; and the port is still open until that report is made.
C4_LinesThenError ==
    /\ handle # "none" /\ (rs # "idle" \/ Returned) =>
        SelectSeq(trace, IsLine) = Emitted(yielded)
    /\ handle # "none" /\ exc.type = "SerialException" /\ rs = "except" =>
        /\ trace = << [kind |-> "listening", text |-> selected] >> \o Emitted(yielded)
        /\ handle = "open"
    /\ handle # "none" /\ exc.type = "SerialException" /\ (rs = "finally" \/ Returned) =>
        trace = << [kind |-> "listening", text |-> selected] >>
                \o Emitted(yielded)
                \o << [kind |-> "serial_error", text |-> exc.msg] >>
    /\ handle = "closed" /\ rs # "idle" => FALSE

C4_Witness ==
    /\ Returned
    /\ handle = "closed"
    /\ exc = [type |-> "SerialException", msg |-> "e1"]
    /\ yielded = << <<"b", "\n">>, <<"xFF", "b", "\n">> >>
    /\ Len(trace) = 4

\* C5, as claimed: no stream failure leaves read_serial_data; after a session
\* ends, for any cause, main re-enumerates the ports and prompts again.
C5_PromptsAgain ==
    [][fromStream => (escaped = NoExc /\ pc = "list" /\ pc' = "prompt")]_vars

\* C5, amended: no stream failure leaves read_serial_data; after a session
\* ends, for any cause, main is at the top of its menu loop and its next step
\* re-enumerates the ports; it prompts again exactly when that enumeration
\* finds a port, and otherwise reports that there are none and returns.
C5_BackToMenu ==
    /\ [](fromStream => (escaped = NoExc /\ pc = "list" /\ rs = "idle"))
    /\ [](pc # "crashed")
    /\ [][fromStream =>
            /\ pc' \in {"prompt", "done"}
            /\ pc' = "prompt" <=> ports' # <<>>
            /\ pc' = "done" => menuOut' = "no_serial_devices"]_vars

C5_Witness ==
    /\ pc = "prompt"
    /\ args.serial
    /\ closeCalls = 1
    /\ handle = "closed"

\* C6: with --serial the USB scan and listing are never performed, whatever
\* the user types (also 'q' at the port prompt).
C6_NoUsbListing ==
    args.serial => (pc \notin {"filter", "inspect", "render"} /\ output = NoOutput)

\* C7: whenever list_serial_ports enumerates no port, on any pass of the menu
\* loop, it returns the empty sequence and reports that no serial devices were
\* detected (and only then), main returns, and nothing happens after that: no
\* prompt, no stream session.
C7_EmptyEnumeration ==
    [][/\ pc = "list" =>
            /\ ports' = <<>> <=> menuOut' = "no_serial_devices"
            /\ ports' = <<>> => pc' = "done"
       /\ menuOut # "no_serial_devices"]_vars

C7_Witness ==
    /\ pc = "done"
    /\ menuOut = "no_serial_devices"
    /\ ports = <<>>
    /\ closeCalls = 1

\* C8: every string field of every USBDevice, and of its to_dict(), is a
\* non-empty string, never None, whatever the string lookup gave.
C8_NoNullField ==
    \A i \in 1..Len(devices) :
        /\ \A v \in {devices[i].manufacturer, devices[i].product, devices[i].serial} :
            ~v.none /\ v.text # <<>>
        /\ \A k \in 1..Len(ToDict(devices[i])) :
            ~ToDict(devices[i])[k][2].none /\ ToDict(devices[i])[k][2].text # <<>>

\* main has rendered the listing of lines 223-232
Rendered == pc = "done" /\ ~args.inspect /\ output.mode # "none"

\* the keys and values the to_dict() records of the devices carry
DictKeys == <<"VID", "PID", "Manufacturer", "Product", "Serial">>

CarriedKeys == IF devices = <<>> THEN <<>> ELSE DictKeys

CarriedValues == [i \in 1..Len(devices) |-> Values(ToDict(devices[i]))]

\* C9, as claimed: for every device list and every combination of --json and
\* --allinfo, the rendering shows the keys of to_dict() as its fields and the
\* values of to_dict() as its rows.
C9_SameFieldsAlways ==
    Rendered => (output.headers = CarriedKeys /\ output.rows = CarriedValues)

\* C9, amended: whenever --json or --allinfo is given, the rendering (JSON, or
\* the table of --allinfo) shows the keys of to_dict() as its fields and the
\* values of to_dict() as its rows; with neither flag the table has the three
\* columns VID, PID, Product, holding the to_dict() values of those keys.
C9_SameFieldsWhenFull ==
    Rendered =>
        /\ output.mode = (IF args.json THEN "json" ELSE "table")
        /\ (args.json \/ args.allinfo) =>
            (output.headers = CarriedKeys /\ output.rows = CarriedValues)
        /\ ~(args.json \/ args.allinfo) =>
            /\ output.headers = <<"VID", "PID", "Product">>
            /\ output.rows =
                [i \in 1..Len(devices) |->
                    << CarriedValues[i][1], CarriedValues[i][2], CarriedValues[i][4] >>]

C9_Witness ==
    /\ Rendered
    /\ args.allinfo
    /\ ~args.json
    /\ Len(devices) > 0
    /\ output.headers = DictKeys

\* str.upper() of one character
UpperChar(c) ==
    IF c = "eszett" THEN <<"S", "S">>
    ELSE IF \E i \in 1..26 : LowerCase[i] = c
         THEN << UpperCase[CHOOSE i \in 1..26 : LowerCase[i] = c] >>
         ELSE <<c>>

RECURSIVE Upper(_)
\* str.upper()
Upper(s) == IF s = <<>> THEN <<>> ELSE UpperChar(Head(s)) \o Upper(Tail(s))

\* C10: for every scanned device D and the keyword K of --filter,
\* matches_filter(D, K) holds exactly when lower(K) occurs in the lower-cased
\* string form of one of the five display fields, VID and PID in their '0x'
\* hexadecimal text; and so it gives the same for K and K.upper().
C10_CaseInsensitive ==
    (pc = "filter" /\ Truthy(args.filter)) =>
    \A i \in 1..Len(devices) :
        LET d == devices[i]
            K == args.filter.text
            fields == << Hex(d.vendor_id), Hex(d.product_id), PyStr(d.manufacturer),
                         PyStr(d.product), PyStr(d.serial) >>
        IN /\ MatchesFilter(d, K) <=>
                \E f \in 1..5 : Contains(Lower(fields[f]), Lower(K))
           /\ MatchesFilter(d, K) <=> MatchesFilter(d, Upper(K))

====
